---- MODULE Spec2Model ----
(***************************************************************************)
(* Model of the challenge docker manager (src/src/lib.rs).                 *)
(*                                                                         *)
(* Text (String, &str, Vec<u8>, PathBuf) is a sequence of one-character    *)
(* strings.  The file system and the child processes are the environment:  *)
(* every operation draws what it reads from them as an input and records   *)
(* what it was called with, the commands it issued, the files it read and  *)
(* what it returned in the variable last.                                  *)
(***************************************************************************)
EXTENDS Integers, Sequences, FiniteSets

VARIABLES managers, last

vars == <<managers, last>>

\* ------------------------------------------------------------------ bounds
MaxManagers == 2
U64Bits == 8

\* --------------------------------------------------------- string literals
S_FloatCTF_toml == <<"F", "l", "o", "a", "t", "C", "T", "F", ".", "t", "o", "m", "l">>
S_docker_compose_yml == <<"d", "o", "c", "k", "e", "r", "-", "c", "o", "m", "p", "o", "s", "e", ".", "y", "m", "l">>
S_attachments == <<"a", "t", "t", "a", "c", "h", "m", "e", "n", "t", "s">>
S_dot_env == <<".", "e", "n", "v">>
S_docker == <<"d", "o", "c", "k", "e", "r">>
S_docker_compose == <<"d", "o", "c", "k", "e", "r", "-", "c", "o", "m", "p", "o", "s", "e">>
S_version == <<"-", "-", "v", "e", "r", "s", "i", "o", "n">>
S_ps == <<"p", "s">>
S_file == <<"-", "-", "f", "i", "l", "e">>
S_build == <<"b", "u", "i", "l", "d">>
S_project_name == <<"-", "-", "p", "r", "o", "j", "e", "c", "t", "-", "n", "a", "m", "e">>
S_up == <<"u", "p">>
S_detach == <<"-", "-", "d", "e", "t", "a", "c", "h">>
S_inspect == <<"i", "n", "s", "p", "e", "c", "t">>
S_format == <<"-", "-", "f", "o", "r", "m", "a", "t">>
S_template == <<"{", "{", "r", "a", "n", "g", "e", " ", "$", "p", ",", " ", "$", "c", "o", "n", "f", " ", ":", "=", " ", ".", "N", "e", "t", "w", "o", "r", "k", "S", "e", "t", "t", "i", "n", "g", "s", ".", "P", "o", "r", "t", "s", "}", "}", "{", "{", "(", "i", "n", "d", "e", "x", " ", "$", "c", "o", "n", "f", " ", "0", ")", ".", "H", "o", "s", "t", "P", "o", "r", "t", "}", "}", "{", "{", "e", "n", "d", "}", "}">>
S_down == <<"d", "o", "w", "n">>
S_volumes == <<"-", "-", "v", "o", "l", "u", "m", "e", "s">>
S_timeout == <<"-", "-", "t", "i", "m", "e", "o", "u", "t", "=", "1">>
S_FLAG_EQ == <<"F", "L", "A", "G", "=">>
S_challenge_project == <<"c", "h", "a", "l", "l", "e", "n", "g", "e", "-", "p", "r", "o", "j", "e", "c", "t", "-">>
S_challenge == <<"c", "h", "a", "l", "l", "e", "n", "g", "e", "-">>
S_dash == <<"-">>

\* ------------------------------------------------------------ text helpers
\* char::is_whitespace, restricted to the ASCII characters that have it
WhiteSpace == {" ", "\t", "\n", "\r", "\f"}

Digits == {"0", "1", "2", "3", "4", "5", "6", "7", "8", "9"}

\* char::to_digit(10) on a decimal digit
DigitVal(c) ==
  CASE c = "0" -> 0 [] c = "1" -> 1 [] c = "2" -> 2 [] c = "3" -> 3
    [] c = "4" -> 4 [] c = "5" -> 5 [] c = "6" -> 6 [] c = "7" -> 7
    [] c = "8" -> 8 [] c = "9" -> 9

\* the decimal digit character of d in 0..9
DigitChar(d) ==
  CASE d = 0 -> "0" [] d = 1 -> "1" [] d = 2 -> "2" [] d = 3 -> "3"
    [] d = 4 -> "4" [] d = 5 -> "5" [] d = 6 -> "6" [] d = 7 -> "7"
    [] d = 8 -> "8" [] d = 9 -> "9"

\* a byte that is not part of any valid UTF-8 sequence
InvalidByte == "<0xFF>"

\* the largest value of the unsigned integer type, at the modelled width
U64_MAX == 2 ^ U64Bits - 1

RECURSIVE TrimStart(_)
TrimStart(s) ==
  IF s # <<>> /\ Head(s) \in WhiteSpace THEN TrimStart(Tail(s)) ELSE s

RECURSIVE TrimEnd(_)
TrimEnd(s) ==
  IF s # <<>> /\ s[Len(s)] \in WhiteSpace
    THEN TrimEnd(SubSeq(s, 1, Len(s) - 1))
    ELSE s

\* str::trim
Trim(s) == TrimEnd(TrimStart(s))

\* u64::to_string: the decimal digits of n, most significant first
RECURSIVE to_string(_)
to_string(n) ==
  IF n < 10 THEN <<DigitChar(n)>>
            ELSE Append(to_string(n \div 10), DigitChar(n % 10))

\* String::from_utf8
FromUtf8(bytes) ==
  IF \E i \in 1..Len(bytes) : bytes[i] = InvalidByte
    THEN [ok |-> FALSE, err |-> [kind |-> "Invalid UTF-8 in output"]]
    ELSE [ok |-> TRUE, val |-> bytes]

\* the digit loop of u64::from_str: checked_mul(10) then checked_add(digit)
RECURSIVE ParseDigits(_, _)
ParseDigits(s, acc) ==
  IF s = <<>> THEN [ok |-> TRUE, val |-> acc]
  ELSE IF Head(s) \notin Digits
    THEN [ok |-> FALSE, err |-> [kind |-> "Failed to parse port", cause |-> "InvalidDigit"]]
  ELSE IF acc * 10 > U64_MAX \/ acc * 10 + DigitVal(Head(s)) > U64_MAX
    THEN [ok |-> FALSE, err |-> [kind |-> "Failed to parse port", cause |-> "PosOverflow"]]
  ELSE ParseDigits(Tail(s), acc * 10 + DigitVal(Head(s)))

\* ParseU64 with an empty text read as port 0
ParseU64_default_zero(s) ==
  IF s = <<>> THEN [ok |-> TRUE, val |-> 0]
  ELSE IF Len(s) = 1 /\ Head(s) \in {"+", "-"}
    THEN [ok |-> FALSE, err |-> [kind |-> "Failed to parse port", cause |-> "InvalidDigit"]]
  ELSE IF Head(s) = "+" THEN ParseDigits(Tail(s), 0)
  ELSE ParseDigits(s, 0)

\* str::parse::<u64>, with the error mapped as in up
ParseU64(s) ==
  IF s = <<>>
    THEN [ok |-> FALSE, err |-> [kind |-> "Failed to parse port", cause |-> "Empty"]]
  ELSE IF Len(s) = 1 /\ Head(s) \in {"+", "-"}
    THEN [ok |-> FALSE, err |-> [kind |-> "Failed to parse port", cause |-> "InvalidDigit"]]
  ELSE IF Head(s) = "+" THEN ParseDigits(Tail(s), 0)
  ELSE ParseDigits(s, 0)

\* one line taken off the front of s: the text before the first "\n"
RECURSIVE UpToNewline(_)
UpToNewline(s) ==
  IF s = <<>> \/ Head(s) = "\n" THEN <<>>
  ELSE <<Head(s)>> \o UpToNewline(Tail(s))

\* a line without its trailing "\r"
StripCr(l) ==
  IF l # <<>> /\ l[Len(l)] = "\r" THEN SubSeq(l, 1, Len(l) - 1) ELSE l

\* str::lines: split at "\n", drop one trailing "\r" of each line, no empty
\* last line after a final "\n"
RECURSIVE Lines(_)
Lines(s) ==
  IF s = <<>> THEN <<>>
  ELSE LET l == UpToNewline(s)
       IN  IF Len(l) = Len(s)
             THEN <<l>>
             ELSE <<StripCr(l)>> \o Lines(SubSeq(s, Len(l) + 2, Len(s)))

\* str::strip_prefix: the rest of the line, or none
StripPrefix(line, prefix) ==
  IF Len(line) >= Len(prefix) /\ SubSeq(line, 1, Len(prefix)) = prefix
    THEN [some |-> TRUE, rest |-> SubSeq(line, Len(prefix) + 1, Len(line))]
    ELSE [some |-> FALSE]

\* PathBuf::join with a component
Join(p, c) ==
  IF c # <<>> /\ Head(c) = "/" THEN c
  ELSE IF p = <<>> \/ p[Len(p)] = "/" THEN p \o c
  ELSE p \o <<"/">> \o c

\* ------------------------------------------------- inputs of the operations
P_comment == <<".", "/", "c", "h", "a", "l", "l", "e", "n", "g", "e", "s", "/", "c", "o", "m", "m", "e", "n", "t">>
N_comment == <<"c", "o", "m", "m", "e", "n", "t">>
N_a1 == <<"a", "-", "1">>
N_sp == <<"m", "y", " ", "c", "h", "a", "l", "!">>
A_hint == <<"h", "i", "n", "t", ".", "t", "x", "t">>
A_zip == <<"a", ".", "z", "i", "p">>

\* challenge directories passed to new
Paths == {P_comment}

\* instance ids passed to new
Ids == {1, 11}

\* flags passed to up
Flags == {<<"f", "l", "a", "g", "{", "t", "}">>, <<>>}

\* ChallengeDockerConfig: what FloatCTF.toml deserializes into
Config(name, dyn, atts, cat, pts) ==
  [name |-> name, author |-> <<"m", "e">>, category |-> cat, tags |-> <<>>,
   description |-> <<>>, attachments |-> atts, is_dynamic_flag |-> dyn,
   points |-> pts]

Configs ==
  { Config(N_comment, TRUE, <<A_hint>>, "Web", 100),
    Config(N_a1, FALSE, <<>>, "Pwn", 50),
    Config(N_sp, FALSE, <<A_hint, A_zip>>, "Misc", 200) }

\* FloatCTF.toml as new finds it: unreadable, not a descriptor, or a descriptor
TomlStates ==
  {[state |-> "unreadable"], [state |-> "malformed"]}
    \cup {[state |-> "parsed", config |-> c] : c \in Configs}

\* the files other than FloatCTF.toml that may exist under a directory
FilesUnder(path) ==
  { Join(path, S_docker_compose_yml),
    Join(Join(path, S_attachments), A_hint),
    Join(Join(path, S_attachments), A_zip) }

\* the file system as one call of new on path sees it
FsStates(path) ==
  [toml : TomlStates, exists : SUBSET FilesUnder(path)]

\* .env as one call of get_static_flag finds it
EnvFiles ==
  { [readable |-> FALSE],
    [readable |-> TRUE, content |-> <<>>],
    [readable |-> TRUE, content |-> <<"F", "L", "A", "G", "=", " ", "a", " ", "b", "\t", "\r", "\n", "F", "L", "A", "G", "=", "z">>],
    [readable |-> TRUE, content |-> <<"X", "=", "1", "\n", " ", "F", "L", "A", "G", "=", "n", "\n", "F", "L", "A", "G", "=", "c", "\n", "F", "L", "A", "G", "=", "d">>],
    [readable |-> TRUE, content |-> <<"f", "l", "a", "g", "=", "a", "\n", "F", "L", "A", "G", "\n", "X", "F", "L", "A", "G", "=", "q">>],
    [readable |-> TRUE, content |-> <<"I", "D", "=", "1", "\r", "\n", "F", "L", "A", "G", "=", "\r", "\n">>] }

\* what a child process does: it cannot be started, it exits with a non-zero
\* status, or it exits with status zero having written stdout
Outcomes ==
  { [kind |-> "spawn_err"], [kind |-> "nonzero"],
    [kind |-> "success", stdout |-> <<>>] }

\* standard output of a docker inspect that ran to completion
RawOutputs ==
  { <<>>, <<"\n">>, <<" ", "8", "0", " ", "\r", "\n">>, <<"+", "8", "0">>,
    <<"-", "1">>, <<"a", "b", "c">>, <<"0", "0", "7">>, <<"0", "\n">>,
    <<"9", "9", "9", "\n">>, <<"8", " ", "0">>, <<"8", InvalidByte>> }

\* .NetworkSettings.Ports of the inspected container: the port mappings in
\* the order the template ranges over them, each with its host bindings
PortSettings ==
  { <<>>,
    <<[key |-> "80/tcp", bindings |-> <<<<"8", "0">>>>]>>,
    <<[key |-> "80/tcp", bindings |-> <<<<"8", "0">>, <<"8", "1">>>>]>>,
    <<[key |-> "443/tcp", bindings |-> <<<<"8">>>>],
      [key |-> "80/tcp", bindings |-> <<<<"9">>>>]>>,
    <<[key |-> "443/tcp", bindings |-> <<<<"8", "0">>>>],
      [key |-> "80/tcp", bindings |-> <<<<"8", "1">>>>]>>,
    <<[key |-> "443/tcp", bindings |-> <<<<"8", "0">>>>],
      [key |-> "80/tcp", bindings |-> <<>>]>> }

\* what the docker inspect child process of up does
InspectWorlds ==
  {[kind |-> "spawn_err"], [kind |-> "nonzero"]}
    \cup {[kind |-> "success", stdout |-> o] : o \in RawOutputs}
    \cup {[kind |-> "container", ports |-> p] : p \in PortSettings}

\* --------------------------------------------------------------- the code
\* evaluation of the --format template of up on the container's ports:
\* range over every mapping, print the HostPort of its binding 0
RECURSIVE EvalTemplate(_)
EvalTemplate(ports) ==
  IF ports = <<>> THEN [ok |-> TRUE, val |-> <<>>]
  ELSE IF Len(ports[1].bindings) = 0 THEN [ok |-> FALSE]
  ELSE LET rest == EvalTemplate(Tail(ports))
       IN  IF rest.ok
             THEN [ok |-> TRUE, val |-> ports[1].bindings[1] \o rest.val]
             ELSE [ok |-> FALSE]

\* the docker inspect process given the template of up: a template error ends
\* it with a non-zero status, otherwise it prints the text and a newline
Exec(w) ==
  IF w.kind # "container" THEN w
  ELSE LET t == EvalTemplate(w.ports)
       IN  IF t.ok THEN [kind |-> "success", stdout |-> t.val \o <<"\n">>]
                   ELSE [kind |-> "nonzero"]

\* Option<HashMap>: None, and Some(map)
NoEnv == [none |-> TRUE]

SomeEnv(map) == [none |-> FALSE, vars |-> map]

\* HashMap::new and HashMap::insert
EmptyMap == [k \in {} |-> <<>>]

Insert(map, key, value) ==
  [k \in DOMAIN map \cup {key} |-> IF k = key THEN value ELSE map[k]]

\* one external invocation, as run_command builds it
Cmd(command, args, env_vars) ==
  [command |-> command, args |-> args, env |-> env_vars]

\* run_command: the result of invoking c when the child process does outcome
run_command(c, outcome) ==
  IF outcome.kind = "spawn_err"
    THEN [ok |-> FALSE, err |-> [kind |-> "Failed to execute", command |-> c.command]]
  ELSE IF outcome.kind = "nonzero"
    THEN [ok |-> FALSE, err |-> [kind |-> "failed", command |-> c.command]]
  ELSE [ok |-> TRUE, val |-> outcome.stdout]

\* the three invocations of check_docker_env, in program order
CheckCmds ==
  << Cmd(S_docker, <<S_version>>, NoEnv),
     Cmd(S_docker_compose, <<S_version>>, NoEnv),
     Cmd(S_docker, <<S_ps>>, NoEnv) >>

\* CheckFrom without the early return: a failure is only reported once
\* the later invocations have been issued too
RECURSIVE CheckFrom_no_short_circuit(_, _, _)
CheckFrom_no_short_circuit(i, outs, issued) ==
  IF i > Len(CheckCmds) THEN [cmds |-> issued, res |-> [ok |-> TRUE, val |-> <<>>]]
  ELSE LET r == run_command(CheckCmds[i], outs[i])
           later == CheckFrom_no_short_circuit(i + 1, outs, Append(issued, CheckCmds[i]))
       IN  IF r.ok THEN later ELSE [cmds |-> later.cmds, res |-> r]

\* the ?-chain of check_docker_env from its i-th invocation on: the
\* invocations issued and the result
RECURSIVE CheckFrom(_, _, _)
CheckFrom(i, outs, issued) ==
  IF i > Len(CheckCmds) THEN [cmds |-> issued, res |-> [ok |-> TRUE, val |-> <<>>]]
  ELSE LET r == run_command(CheckCmds[i], outs[i])
       IN  IF r.ok THEN CheckFrom(i + 1, outs, Append(issued, CheckCmds[i]))
                   ELSE [cmds |-> Append(issued, CheckCmds[i]), res |-> r]

\* FirstMissing that looks at the first declared attachment only
FirstMissing_first_only(atts, i, path, fs) ==
  IF i > Len(atts) THEN 0
  ELSE IF Join(Join(path, S_attachments), atts[i]) \notin fs.exists THEN i
  ELSE 0

\* the attachment loop of new: the first declared attachment that does not
\* exist, 0 if all exist
RECURSIVE FirstMissing(_, _, _, _)
FirstMissing(atts, i, path, fs) ==
  IF i > Len(atts) THEN 0
  ELSE IF Join(Join(path, S_attachments), atts[i]) \notin fs.exists THEN i
  ELSE FirstMissing(atts, i + 1, path, fs)

\* ProjectName that leaves the instance id out
ProjectName_without_id(id, name) == S_challenge_project \o name

\* format!("challenge-project-{}-{}", id, config.name)
ProjectName(id, name) == S_challenge_project \o to_string(id) \o S_dash \o name

\* ContainerName with the id and the name in the order of the project name
ContainerName_swapped(name, id) == S_challenge \o to_string(id) \o S_dash \o name

\* format!("challenge-{}-{}", config.name, id)
ContainerName(name, id) == S_challenge \o name \o S_dash \o to_string(id)

\* the value new returns for a directory in state fs
NewResult(path, id, fs) ==
  IF fs.toml.state = "unreadable"
    THEN [ok |-> FALSE, err |-> [kind |-> "Failed to read FloatCTF.toml"]]
  ELSE IF fs.toml.state = "malformed"
    THEN [ok |-> FALSE, err |-> [kind |-> "Failed to parse the FloatCTF.toml"]]
  ELSE LET config == fs.toml.config
           docker_compose_yml == Join(path, S_docker_compose_yml)
           missing == FirstMissing(config.attachments, 1, path, fs)
       IN  IF docker_compose_yml \notin fs.exists
             THEN [ok |-> FALSE,
                   err |-> [kind |-> "has no docker-compose.yml", name |-> config.name]]
           ELSE IF missing # 0
             THEN [ok |-> FALSE,
                   err |-> [kind |-> "has no attachment", name |-> config.name,
                            attachment |-> config.attachments[missing]]]
           ELSE [ok |-> TRUE,
                 val |-> [id |-> id,
                          docker_compose_yml |-> docker_compose_yml,
                          docker_compose_project_name |-> ProjectName(id, config.name),
                          main_container_name |-> ContainerName(config.name, id),
                          challenge_path |-> path,
                          challenge_docker_config |-> config]]

\* the docker-compose build invocation of build
BuildCmd(m) ==
  Cmd(S_docker_compose, <<S_file, m.docker_compose_yml, S_build>>, NoEnv)

\* UpEnv that sets FLAG whatever the flag mode is
UpEnv_always_flag(m, flag) ==
  Insert(Insert(EmptyMap, "FLAG", flag), "ID", to_string(m.id))

\* the environment overrides of up
UpEnv(m, flag) ==
  LET env_vars == IF m.challenge_docker_config.is_dynamic_flag
                    THEN Insert(EmptyMap, "FLAG", flag)
                    ELSE EmptyMap
      binding == to_string(m.id)
  IN  Insert(env_vars, "ID", binding)

\* the docker-compose up invocation of up
UpCmd(m, flag) ==
  Cmd(S_docker_compose,
      <<S_file, m.docker_compose_yml, S_project_name,
        m.docker_compose_project_name, S_up, S_detach>>,
      SomeEnv(UpEnv(m, flag)))

\* the docker inspect invocation of up
InspectCmd(m) ==
  Cmd(S_docker, <<S_inspect, S_format, S_template, m.main_container_name>>, NoEnv)

\* the docker-compose down invocation of down
DownCmd(m) ==
  Cmd(S_docker_compose,
      <<S_file, m.docker_compose_yml, S_project_name,
        m.docker_compose_project_name, S_down, S_volumes, S_timeout>>,
      NoEnv)

\* from_utf8, trim and parse at the end of up
PortOf(output) ==
  LET s == FromUtf8(output)
  IN  IF ~s.ok THEN s
      ELSE LET port == Trim(s.val)
           IN  ParseU64(port)

\* UpResult that stops the project again when the inspection or the parse
\* has failed
UpResult_rollback(m, flag, o1, w2) ==
  LET r1 == run_command(UpCmd(m, flag), o1)
  IN  IF ~r1.ok THEN [cmds |-> <<UpCmd(m, flag)>>, res |-> r1]
      ELSE LET r2 == run_command(InspectCmd(m), Exec(w2))
               res == IF ~r2.ok THEN r2 ELSE PortOf(r2.val)
           IN  [cmds |-> IF res.ok THEN <<UpCmd(m, flag), InspectCmd(m)>>
                                   ELSE <<UpCmd(m, flag), InspectCmd(m), DownCmd(m)>>,
                res |-> res]

\* up: the invocations it issues and the value it returns when the compose
\* process does o1 and the inspect process does w2
UpResult(m, flag, o1, w2) ==
  LET r1 == run_command(UpCmd(m, flag), o1)
  IN  IF ~r1.ok THEN [cmds |-> <<UpCmd(m, flag)>>, res |-> r1]
      ELSE LET r2 == run_command(InspectCmd(m), Exec(w2))
           IN  [cmds |-> <<UpCmd(m, flag), InspectCmd(m)>>,
                res |-> IF ~r2.ok THEN r2 ELSE PortOf(r2.val)]

\* ScanLines that returns the rest of the line as it stands
RECURSIVE ScanLines_untrimmed(_)
ScanLines_untrimmed(lines) ==
  IF lines = <<>>
    THEN [ok |-> FALSE, err |-> [kind |-> "FLAG not found in .env"]]
  ELSE LET rest == StripPrefix(Head(lines), S_FLAG_EQ)
       IN  IF rest.some THEN [ok |-> TRUE, val |-> rest.rest]
                        ELSE ScanLines_untrimmed(Tail(lines))

\* the line loop of get_static_flag
RECURSIVE ScanLines(_)
ScanLines(lines) ==
  IF lines = <<>>
    THEN [ok |-> FALSE, err |-> [kind |-> "FLAG not found in .env"]]
  ELSE LET rest == StripPrefix(Head(lines), S_FLAG_EQ)
       IN  IF rest.some THEN [ok |-> TRUE, val |-> Trim(rest.rest)]
                        ELSE ScanLines(Tail(lines))

\* FlagResult without the flag-mode check
FlagResult_no_mode_check(m, envfile) ==
  LET dot_env == Join(m.challenge_path, S_dot_env)
  IN  [reads |-> <<dot_env>>,
       res |-> IF ~envfile.readable
                 THEN [ok |-> FALSE, err |-> [kind |-> "Failed to read .env"]]
                 ELSE ScanLines(Lines(envfile.content))]

\* get_static_flag: the files it reads and the value it returns when .env
\* is as envfile says
FlagResult(m, envfile) ==
  IF m.challenge_docker_config.is_dynamic_flag
    THEN [reads |-> <<>>,
          res |-> [ok |-> FALSE, err |-> [kind |-> "The challenge is not static flag"]]]
  ELSE LET dot_env == Join(m.challenge_path, S_dot_env)
       IN  [reads |-> <<dot_env>>,
            res |-> IF ~envfile.readable
                      THEN [ok |-> FALSE, err |-> [kind |-> "Failed to read .env"]]
                      ELSE ScanLines(Lines(envfile.content))]

\* ------------------------------------------------------------ the actions
Init ==
  /\ managers = {}
  /\ last = [op |-> "init", cmds |-> <<>>, reads |-> <<>>]

\* check_docker_env()
CheckDockerEnv ==
  \E outs \in [1..3 -> Outcomes] :
    LET r == CheckFrom(1, outs, <<>>)
    IN  /\ last' = [op |-> "check_docker_env",
                    outs |-> SubSeq(outs, 1, Len(r.cmds)), cmds |-> r.cmds,
                    reads |-> <<>>, res |-> r.res]
        /\ UNCHANGED managers

\* new(challenge_path, id); the caller keeps the Manager it gets
New ==
  \E path \in Paths, id \in Ids :
    \E fs \in FsStates(path) :
      LET r == NewResult(path, id, fs)
      IN  /\ r.ok => (r.val \in managers \/ Cardinality(managers) < MaxManagers)
          /\ managers' = IF r.ok THEN managers \cup {r.val} ELSE managers
          /\ last' = [op |-> "new", path |-> path, id |-> id, fs |-> fs,
                      cmds |-> <<>>, reads |-> <<Join(path, S_FloatCTF_toml)>>,
                      res |-> r]

\* build()
Build ==
  \E m \in managers, o \in Outcomes :
    LET r == run_command(BuildCmd(m), o)
    IN  /\ last' = [op |-> "build", m |-> m, outs |-> <<o>>, cmds |-> <<BuildCmd(m)>>,
                    reads |-> <<>>,
                    res |-> IF r.ok THEN [ok |-> TRUE, val |-> <<>>] ELSE r]
        /\ UNCHANGED managers

\* up(flag)
Up ==
  \E m \in managers, flag \in Flags, o1 \in Outcomes, w2 \in InspectWorlds :
    LET r == UpResult(m, flag, o1, w2)
    IN  /\ last' = [op |-> "up", m |-> m, flag |-> flag,
                    outs |-> IF Len(r.cmds) = 1 THEN <<o1>> ELSE <<o1, w2>>,
                    cmds |-> r.cmds, reads |-> <<>>, res |-> r.res]
        /\ UNCHANGED managers

\* down()
Down ==
  \E m \in managers, o \in Outcomes :
    LET r == run_command(DownCmd(m), o)
    IN  /\ last' = [op |-> "down", m |-> m, outs |-> <<o>>, cmds |-> <<DownCmd(m)>>,
                    reads |-> <<>>,
                    res |-> IF r.ok THEN [ok |-> TRUE, val |-> <<>>] ELSE r]
        /\ UNCHANGED managers

\* get_static_flag()
GetStaticFlag ==
  \E m \in managers, envfile \in EnvFiles :
    LET r == FlagResult(m, envfile)
    IN  /\ last' = [op |-> "get_static_flag", m |-> m, envfile |-> envfile,
                    cmds |-> <<>>, reads |-> r.reads, res |-> r.res]
        /\ UNCHANGED managers

Next ==
  \/ CheckDockerEnv
  \/ New
  \/ Build
  \/ Up
  \/ Down
  \/ GetStaticFlag

Spec == Init /\ [][Next]_vars

\* ------------------------------------------- vocabulary of the properties
\* the number a digit string denotes, read from its last digit
RECURSIVE DecimalValue(_)
DecimalValue(d) ==
  IF d = <<>> THEN 0
  ELSE DigitVal(d[Len(d)]) + 10 * DecimalValue(SubSeq(d, 1, Len(d) - 1))

\* ds is the decimal numeral of n: digits only, no leading zero
IsDecimalOf(ds, n) ==
  /\ ds # <<>>
  /\ \A i \in 1..Len(ds) : ds[i] \in Digits
  /\ Len(ds) > 1 => ds[1] # "0"
  /\ DecimalValue(ds) = n

\* s without its leading and trailing whitespace, by position
Trimmed(s) ==
  CHOOSE t \in {SubSeq(s, i, j) : i \in 1..(Len(s) + 1), j \in 0..Len(s)} :
    \E i \in 1..(Len(s) + 1), j \in 0..Len(s) :
      /\ t = SubSeq(s, i, j)
      /\ \A k \in 1..Len(s) : (k < i \/ k > j) => s[k] \in WhiteSpace
      /\ t # <<>> => (t[1] \notin WhiteSpace /\ t[Len(t)] \notin WhiteSpace)

\* the digits of t once an optional leading plus sign is dropped
Unsigned(t) == IF t # <<>> /\ t[1] = "+" THEN SubSeq(t, 2, Len(t)) ELSE t

\* t is the text of an unsigned integer of the modelled width
IsUIntText(t) ==
  /\ Unsigned(t) # <<>>
  /\ \A i \in 1..Len(Unsigned(t)) : Unsigned(t)[i] \in Digits
  /\ DecimalValue(Unsigned(t)) <= U64_MAX

\* text is one of the arguments of invocation c
HasArg(c, text) == \E i \in 1..Len(c.args) : c.args[i] = text

\* the positions of s where a line begins with "FLAG="
FlagLineStarts(s) ==
  { st \in 1..Len(s) :
      /\ st = 1 \/ s[st - 1] = "\n"
      /\ st + 4 <= Len(s)
      /\ SubSeq(s, st, st + 4) = S_FLAG_EQ }

\* the position where the line that begins at st ends: before the next
\* newline, or at the end of s
LineEnd(s, st) ==
  IF \E e \in st..Len(s) : s[e] = "\n"
    THEN (CHOOSE e \in st..Len(s) :
            s[e] = "\n" /\ \A k \in st..(e - 1) : s[k] # "\n") - 1
    ELSE Len(s)

\* the smallest element of a non-empty set of numbers
Min(S) == CHOOSE x \in S : \A y \in S : x <= y

\* ------------------------------------------------------------ properties

\* C1: new returns a Manager if and only if FloatCTF.toml is readable and
\* parses, docker-compose.yml exists in the directory and every declared
\* attachment exists under attachments; otherwise it returns an error and
\* no Manager.
C1_NewIffValid ==
  last.op = "new" =>
    /\ last.res.ok <=>
         /\ last.fs.toml.state = "parsed"
         /\ Join(last.path, S_docker_compose_yml) \in last.fs.exists
         /\ \A i \in 1..Len(last.fs.toml.config.attachments) :
              Join(Join(last.path, S_attachments), last.fs.toml.config.attachments[i])
                \in last.fs.exists
    /\ last.res.ok => last.res.val \in managers
    /\ ~last.res.ok => (DOMAIN last.res = {"ok", "err"})

\* new has failed on a directory where only the second attachment is missing
C1_Witness ==
  /\ last.op = "new"
  /\ ~last.res.ok
  /\ last.fs.toml.state = "parsed"
  /\ Len(last.fs.toml.config.attachments) = 2
  /\ last.fs.exists = FilesUnder(last.path)
                        \ {Join(Join(last.path, S_attachments), A_zip)}

\* C2: every Manager's project name is exactly challenge-project-{id}-{name}
\* and its container name exactly challenge-{name}-{id}, the id in decimal,
\* for any name; name comment with id 1 gives challenge-project-1-comment
\* and challenge-comment-1.
C2_DerivedNames ==
  \A m \in managers :
    LET n == m.challenge_docker_config.name
        p == m.docker_compose_project_name
        c == m.main_container_name
        k == Len(p) - 18 - 1 - Len(n)
    IN  /\ Len(c) = Len(p) - 8
        /\ k >= 1
        /\ SubSeq(p, 1, 18) = S_challenge_project
        /\ IsDecimalOf(SubSeq(p, 19, 18 + k), m.id)
        /\ p[19 + k] = "-"
        /\ SubSeq(p, 20 + k, Len(p)) = n
        /\ SubSeq(c, 1, 10) = S_challenge
        /\ SubSeq(c, 11, 10 + Len(n)) = n
        /\ c[11 + Len(n)] = "-"
        /\ IsDecimalOf(SubSeq(c, 12 + Len(n), Len(c)), m.id)
        /\ (n = N_comment /\ m.id = 1) =>
             /\ p = <<"c", "h", "a", "l", "l", "e", "n", "g", "e", "-", "p", "r", "o", "j", "e", "c", "t", "-", "1", "-", "c", "o", "m", "m", "e", "n", "t">>
             /\ c = <<"c", "h", "a", "l", "l", "e", "n", "g", "e", "-", "c", "o", "m", "m", "e", "n", "t", "-", "1">>

\* a Manager exists for a name with a space and punctuation and a
\* two-digit id, and one for name comment with id 1
C2_Witness ==
  /\ \E m \in managers : m.challenge_docker_config.name = N_sp /\ m.id = 11
  /\ \E m \in managers : m.challenge_docker_config.name = N_comment /\ m.id = 1

\* C3: the environment overrides of the compose up command always hold ID,
\* the instance id in decimal; they hold FLAG, set to the flag passed, when
\* is_dynamic_flag is true, and no FLAG when it is false.
C3_UpEnv ==
  last.op = "up" =>
    LET c == last.cmds[1]
        dyn == last.m.challenge_docker_config.is_dynamic_flag
    IN  /\ c.command = S_docker_compose
        /\ HasArg(c, S_up)
        /\ ~c.env.none
        /\ "ID" \in DOMAIN c.env.vars
        /\ IsDecimalOf(c.env.vars["ID"], last.m.id)
        /\ dyn => ("FLAG" \in DOMAIN c.env.vars /\ c.env.vars["FLAG"] = last.flag)
        /\ ~dyn => "FLAG" \notin DOMAIN c.env.vars
        /\ DOMAIN c.env.vars \subseteq {"ID", "FLAG"}

\* up has been called with a non-empty flag on a static-flag Manager
C3_Witness ==
  /\ last.op = "up"
  /\ ~last.m.challenge_docker_config.is_dynamic_flag
  /\ last.flag # <<>>
  /\ last.m.id = 11

\* C4: when both commands of up succeed, up returns the unsigned integer
\* that the trimmed inspect output denotes; when the trimmed output is empty
\* or is not an unsigned integer, up returns the parse error and no port
\* (output that is not text at all is refused as invalid UTF-8, also
\* without a port).
C4_PortParsed ==
  (last.op = "up" /\ Len(last.cmds) = 2 /\ Exec(last.outs[2]).kind = "success") =>
    LET out == Exec(last.outs[2]).stdout
        text == \A i \in 1..Len(out) : out[i] # InvalidByte
    IN  IF text /\ IsUIntText(Trimmed(out))
          THEN /\ last.res.ok
               /\ last.res.val = DecimalValue(Unsigned(Trimmed(out)))
          ELSE /\ ~last.res.ok
               /\ DOMAIN last.res = {"ok", "err"}
               /\ last.res.err.kind =
                    IF text THEN "Failed to parse port" ELSE "Invalid UTF-8 in output"

\* up has inspected a container without published ports, and has failed
C4_Witness ==
  /\ last.op = "up"
  /\ Len(last.cmds) = 2
  /\ last.outs[2] = [kind |-> "container", ports |-> <<>>]
  /\ ~last.res.ok

\* C5: for a container with one or more published port mappings, the port a
\* successful up returns is the first host port of the first mapping.
C5_FirstMappingPort ==
  ( /\ last.op = "up"
    /\ last.res.ok
    /\ Len(last.outs) = 2
    /\ last.outs[2].kind = "container"
    /\ Len(last.outs[2].ports) >= 1 ) =>
    last.res.val = DecimalValue(last.outs[2].ports[1].bindings[1])

\* C6: on a dynamic-flag Manager get_static_flag always returns the
\* mode-mismatch error, whatever .env is, and reads no file before it.
C6_DynamicMismatch ==
  (last.op = "get_static_flag" /\ last.m.challenge_docker_config.is_dynamic_flag) =>
    /\ ~last.res.ok
    /\ last.res.err.kind = "The challenge is not static flag"
    /\ last.reads = <<>>

\* get_static_flag has been called on a dynamic-flag Manager whose .env is
\* readable and has a FLAG= line
C6_Witness ==
  /\ last.op = "get_static_flag"
  /\ last.m.challenge_docker_config.is_dynamic_flag
  /\ last.envfile.readable
  /\ FlagLineStarts(last.envfile.content) # {}

\* C7: on a static-flag Manager with a readable .env, get_static_flag
\* returns the trimmed text after FLAG= on the first line that begins with
\* FLAG=, and an error if no line begins with it.
C7_StaticFlag ==
  ( /\ last.op = "get_static_flag"
    /\ ~last.m.challenge_docker_config.is_dynamic_flag
    /\ last.envfile.readable ) =>
    LET s == last.envfile.content
        starts == FlagLineStarts(s)
    IN  /\ last.reads = <<Join(last.m.challenge_path, S_dot_env)>>
        /\ IF starts # {}
             THEN /\ last.res.ok
                  /\ last.res.val =
                       Trimmed(SubSeq(s, Min(starts) + 5, LineEnd(s, Min(starts))))
             ELSE /\ ~last.res.ok
                  /\ last.res.err.kind = "FLAG not found in .env"

\* get_static_flag has returned the flag of the first of two FLAG= lines,
\* without the whitespace around it
C7_Witness ==
  /\ last.op = "get_static_flag"
  /\ ~last.m.challenge_docker_config.is_dynamic_flag
  /\ last.envfile.readable
  /\ Cardinality(FlagLineStarts(last.envfile.content)) = 2
  /\ last.res.ok
  /\ last.res.val = <<"a", " ", "b">>

\* C8: up issues compose up first; if it fails, up returns its error and
\* issues nothing else; if it succeeds, up issues docker inspect next, and
\* whether or not the inspect or the parse then fails, it issues no third
\* command, in particular no down.
C8_UpSequence ==
  last.op = "up" =>
    /\ Len(last.cmds) \in {1, 2}
    /\ Len(last.outs) = Len(last.cmds)
    /\ last.cmds[1].command = S_docker_compose /\ HasArg(last.cmds[1], S_up)
    /\ last.outs[1].kind # "success" =>
         /\ Len(last.cmds) = 1
         /\ ~last.res.ok
         /\ last.res.err.command = S_docker_compose
         /\ last.res.err.kind =
              IF last.outs[1].kind = "spawn_err" THEN "Failed to execute" ELSE "failed"
    /\ last.outs[1].kind = "success" =>
         /\ Len(last.cmds) = 2
         /\ last.cmds[2].command = S_docker
         /\ last.cmds[2].args[1] = S_inspect
    /\ \A i \in 1..Len(last.cmds) : ~HasArg(last.cmds[i], S_down)

\* compose up has succeeded and the inspect command has failed
C8_Witness ==
  /\ last.op = "up"
  /\ Len(last.cmds) = 2
  /\ last.outs[1].kind = "success"
  /\ last.outs[2].kind = "nonzero"
  /\ ~last.res.ok

\* C9: check_docker_env issues docker --version, docker-compose --version,
\* docker ps in that order, stops at the first that fails and returns its
\* error, and succeeds only when all three succeeded.
C9_CheckOrder ==
  last.op = "check_docker_env" =>
    LET n == Len(last.cmds)
        order == << [command |-> S_docker, args |-> <<S_version>>, env |-> NoEnv],
                    [command |-> S_docker_compose, args |-> <<S_version>>, env |-> NoEnv],
                    [command |-> S_docker, args |-> <<S_ps>>, env |-> NoEnv] >>
    IN  /\ n \in 1..3
        /\ last.cmds = SubSeq(order, 1, n)
        /\ Len(last.outs) = n
        /\ \A i \in 1..(n - 1) : last.outs[i].kind = "success"
        /\ last.res.ok <=> (n = 3 /\ last.outs[3].kind = "success")
        /\ ~last.res.ok =>
             /\ last.outs[n].kind # "success"
             /\ last.res.err.command = order[n].command
             /\ last.res.err.kind =
                  IF last.outs[n].kind = "spawn_err" THEN "Failed to execute" ELSE "failed"

\* check_docker_env has stopped at a failing docker-compose --version
C9_Witness ==
  /\ last.op = "check_docker_env"
  /\ Len(last.cmds) = 2
  /\ ~last.res.ok

\* C10: Managers whose (name, id) pairs differ have different project names
\* and different container names, and no command of an up or a down through
\* one Manager carries the project name or the container name of a Manager
\* with another (name, id) pair.
C10_Namespacing ==
  LET differ(a, b) ==
        \/ a.challenge_docker_config.name # b.challenge_docker_config.name
        \/ a.id # b.id
  IN  /\ \A a, b \in managers :
           differ(a, b) =>
             /\ a.docker_compose_project_name # b.docker_compose_project_name
             /\ a.main_container_name # b.main_container_name
      /\ last.op \in {"up", "down"} =>
           \A b \in managers :
             differ(last.m, b) =>
               \A i \in 1..Len(last.cmds) :
                 /\ ~HasArg(last.cmds[i], b.docker_compose_project_name)
                 /\ ~HasArg(last.cmds[i], b.main_container_name)
                 /\ \/ HasArg(last.cmds[i], last.m.docker_compose_project_name)
                    \/ HasArg(last.cmds[i], last.m.main_container_name)

\* down has been issued through one of two instances of the same challenge
C10_Witness ==
  /\ last.op = "down"
  /\ last.res.ok
  /\ \E b \in managers :
       /\ b.challenge_docker_config.name = last.m.challenge_docker_config.name
       /\ b.id # last.m.id

====
